---- MODULE Spec2Model ----
(***************************************************************************)
(* Model of similarity.py: pitcher_pitch_averages, get_candidates and      *)
(* find_similar over the frame returned by the Statcast provider.          *)
(*                                                                         *)
(* A frame is a sequence of rows (records).  A missing value (pandas NaN)  *)
(* is the empty tuple NaN; a present number v is the one-tuple <<v>>.      *)
(* A mean is NaN or the exact fraction <<sum, count>>.  A distance is NaN  *)
(* or <<d>> where d = (Scale * euclidean norm)^2, an exact integer that    *)
(* orders rows exactly as the norm does (squaring and scaling by a         *)
(* positive constant are strictly increasing on non-negative numbers).     *)
(***************************************************************************)
EXTENDS Integers, Sequences, FiniteSets, TLC

VARIABLES data, provider, op, args, table, result

vars == <<data, provider, op, args, table, result>>

\* ------------------------------------------------------------------ bounds
\* Longest frame the provider returns.
MaxEvents == 3
\* Largest top_n a caller passes.
MaxTopN == 2
\* Pitchers of a busy date range (the target and the candidates).
NumWide == 19
\* numpy's SMALL_QUICKSORT: a range longer than this is partitioned, a shorter
\* one is sorted by insertion.
SMALL_QUICKSORT == 16

\* ------------------------------------------------------------- input sets
NaN == <<>>

isna(x) == x = NaN

\* The pitcher ids of the provider's frame (opaque MLBAM integers).
Pitchers == {101, 102, 103}

\* Pitch type codes in lexicographic order; NoType is a missing pitch_type.
PitchTypes == <<"FF", "SL">>

NoType == "nan"

\* The six ranking columns, in the order of the list in find_similar.
features == <<"release_speed", "release_spin_rate", "release_pos_x",
              "release_pos_z", "pfx_x", "pfx_z">>

\* The nine columns pitcher_pitch_averages aggregates, in dict order.
agg_columns == <<"release_speed", "release_spin_rate", "release_pos_x",
                 "release_pos_z", "release_extension", "pfx_x", "pfx_z",
                 "plate_x", "plate_z">>

\* The rename of pitcher_pitch_averages; plate_x and plate_z keep their names.
renamed(c) ==
  CASE c = "release_speed"     -> "avg_velocity"
    [] c = "release_spin_rate" -> "avg_spin_rate"
    [] c = "release_pos_x"     -> "avg_release_x"
    [] c = "release_pos_z"     -> "avg_release_z"
    [] c = "release_extension" -> "avg_extension"
    [] c = "pfx_x"             -> "avg_break_x"
    [] c = "pfx_z"             -> "avg_break_z"
    [] OTHER                   -> c

\* A pitch with every measurement present and zero.
PlainMeasurement ==
  [release_speed |-> <<0>>, release_spin_rate |-> <<0>>, release_pos_x |-> <<0>>,
   release_pos_z |-> <<0>>, release_extension |-> <<0>>, pfx_x |-> <<0>>,
   pfx_z |-> <<0>>, plate_x |-> <<0>>, plate_z |-> <<0>>]

\* A pitch with every measurement present, some of them not zero.
FastMeasurement ==
  [release_speed |-> <<2>>, release_spin_rate |-> <<1>>, release_pos_x |-> <<0>>,
   release_pos_z |-> <<1>>, release_extension |-> <<2>>, pfx_x |-> <<0>>,
   pfx_z |-> <<0>>, plate_x |-> <<1>>, plate_z |-> <<0>>]

\* A pitch with missing measurements.
HoledMeasurement ==
  [release_speed |-> NaN, release_spin_rate |-> <<3>>, release_pos_x |-> <<1>>,
   release_pos_z |-> NaN, release_extension |-> NaN, pfx_x |-> <<2>>,
   pfx_z |-> <<1>>, plate_x |-> NaN, plate_z |-> <<2>>]

\* The measurements one pitch may carry: complete rows and a row with holes.
Measurements == {PlainMeasurement, FastMeasurement, HoledMeasurement}

\* One row of the provider's frame: a pitch thrown by a pitcher.
Event(p, t, m) == [pitcher |-> p, pitch_type |-> t] @@ m

\* The pitcher who throws the second pitch type, and the pitcher for whom the
\* provider reports a pitch with no pitch type.
SecondTypePitchers == {103}

UntypedPitchers == {101}

\* The pitches the provider may report: every measurement for the first pitch
\* type, the plain measurement for the second and for a missing pitch type.
Events ==
  {Event(p, PitchTypes[1], m) : p \in Pitchers, m \in Measurements}
    \cup {Event(p, PitchTypes[2], PlainMeasurement) : p \in SecondTypePitchers}
    \cup {Event(p, NoType, PlainMeasurement) : p \in UntypedPitchers}

\* The pitchers of a busy date range: one target and NumWide - 1 candidates.
WidePitchers == {200 + i : i \in 1..NumWide}

\* One pitch of the first type per pitcher, in ascending pitcher order; the
\* pitchers of fast carry the fast measurement, the others the plain one.
wide_frame(fast) ==
  [i \in 1..NumWide |->
     Event(200 + i, PitchTypes[1],
           IF 200 + i \in fast THEN FastMeasurement ELSE PlainMeasurement)]

reversed(frame) == [i \in 1..Len(frame) |-> frame[Len(frame) + 1 - i]]

\* The pitchers find_similar is asked about in a busy date range: the first
\* and the last of the frame.
WideTargets == {200 + 1, 200 + NumWide}

\* The frames of a busy date range: no pitcher or the first one is fast, and
\* the rows come in ascending or in descending pitcher order.
WideFrames ==
  {wide_frame(fast) : fast \in {{}, {200 + 1}}}
    \cup {reversed(wide_frame(fast)) : fast \in {{}, {200 + 1}}}

\* ---------------------------------------------------------- frame helpers
Range(s) == {s[i] : i \in 1..Len(s)}

Min(a, b) == IF a < b THEN a ELSE b

RECURSIVE Factorial(_)
Factorial(n) == IF n <= 1 THEN 1 ELSE n * Factorial(n - 1)

\* Every mean of at most MaxEvents integers is an integer multiple of 1/Scale.
Scale == Factorial(MaxEvents)

\* pd.DataFrame(): the frame with no columns and no rows.
EmptyFrame == [kind |-> "DataFrame", columns |-> <<>>, rows |-> <<>>]

\* frame[frame[col] == value]
filter_eq(frame, col, value) == SelectSeq(frame, LAMBDA e : e[col] = value)

\* frame[frame[col] != value]
filter_ne(frame, col, value) == SelectSeq(frame, LAMBDA e : e[col] # value)

RECURSIVE sorted_ids(_)
\* The integers of S in ascending order.
sorted_ids(S) ==
  IF S = {} THEN <<>>
  ELSE LET k == CHOOSE x \in S : \A y \in S : x <= y
       IN <<k>> \o sorted_ids(S \ {k})

\* The pitch type codes of S in lexicographic order.
sorted_codes(S) == SelectSeq(PitchTypes, LAMBDA t : t \in S)

RECURSIVE column_sum(_, _)
column_sum(frame, col) ==
  IF frame = <<>> THEN 0 ELSE Head(frame)[col][1] + column_sum(Tail(frame), col)

\* A mean that counts a missing value as zero (fillna(0) before mean).
mean_zero_fill(frame, col) ==
  LET present == SelectSeq(frame, LAMBDA e : ~isna(e[col]))
  IN IF frame = <<>> THEN NaN ELSE <<column_sum(present, col), Len(frame)>>

\* Series.mean() with skipna: the mean of the present values, NaN if none.
mean(frame, col) ==
  LET present == SelectSeq(frame, LAMBDA e : ~isna(e[col]))
  IN IF present = <<>> THEN NaN ELSE <<column_sum(present, col), Len(present)>>

\* Group keys that miss the key of the frame's first row.
group_keys_skip_first(frame, key) ==
  {e[key] : e \in {x \in Range(SubSeq(frame, 2, Len(frame))) : key = "pitch_type" => x[key] # NoType}}

\* The group keys of frame.groupby(key): the distinct present key values.
group_keys(frame, key) ==
  {e[key] : e \in {x \in Range(frame) : key = "pitch_type" => x[key] # NoType}}

\* frame.groupby(key)[cols].mean().reset_index(): one row per key, ascending.
groupby_mean(frame, key, cols) ==
  LET keys == IF key = "pitcher" THEN sorted_ids(group_keys(frame, key))
              ELSE sorted_codes(group_keys(frame, key))
      row(k) == LET grp == SelectSeq(frame, LAMBDA e : e[key] = k)
                IN [c \in Range(cols) |-> mean(grp, c)] @@ (key :> k)
  IN [i \in 1..Len(keys) |-> row(keys[i])]

\* ------------------------------------------------------------- collaborators
\* statcast(start_date, end_date): the provider's frame, when it answers.
statcast == data

\* statcast_pitcher(start_date, end_date, pitcher_id): that pitcher's pitches.
statcast_pitcher(pitcher_id) == filter_eq(data, "pitcher", pitcher_id)

\* The display name playerid_reverse_lookup reports for an id.
player_name(id) == <<"first last", id>>

\* ---------------------------------------------------- pitcher_pitch_averages
pitcher_grouped(frame) == groupby_mean(frame, "pitch_type", agg_columns)

pitcher_pitch_averages_result(grouped) ==
  [kind |-> "DataFrame",
   columns |-> <<"pitch_type">> \o [i \in 1..Len(agg_columns) |-> renamed(agg_columns[i])],
   rows |-> [i \in 1..Len(grouped) |->
               [c \in {renamed(agg_columns[j]) : j \in 1..Len(agg_columns)} |->
                  grouped[i][CHOOSE a \in Range(agg_columns) : renamed(a) = c]]
               @@ ("pitch_type" :> grouped[i].pitch_type)]]

\* ------------------------------------------------------------ get_candidates
RECURSIVE unique(_)
\* Series.unique(): the distinct values in order of first appearance.
unique(s) ==
  IF s = <<>> THEN <<>>
  ELSE LET rest == unique(SubSeq(s, 1, Len(s) - 1))
       IN IF s[Len(s)] \in Range(rest) THEN rest ELSE Append(rest, s[Len(s)])

get_candidates_result(pitch_type) ==
  IF provider = "down" THEN [kind |-> "list", rows |-> <<>>]
  ELSE IF statcast = <<>> THEN [kind |-> "list", rows |-> <<>>]
  ELSE LET filtered == filter_eq(statcast, "pitch_type", pitch_type)
       IN IF filtered = <<>> THEN [kind |-> "list", rows |-> <<>>]
          ELSE [kind |-> "list",
                rows |-> unique([i \in 1..Len(filtered) |-> filtered[i].pitcher])]

\* -------------------------------------------------------------- find_similar
\* filtered.groupby('pitcher')[features].mean().reset_index()
pitcher_averages(filtered) == groupby_mean(filtered, "pitcher", features)

scaled(m) == m[1] * (Scale \div m[2])

RECURSIVE sum_squares(_, _, _)
sum_squares(u, v, i) ==
  IF i > Len(features) THEN 0
  ELSE (scaled(u[features[i]]) - scaled(v[features[i]])) * (scaled(u[features[i]]) - scaled(v[features[i]]))
       + sum_squares(u, v, i + 1)

\* np.linalg.norm(target_vector - row.values): NaN as soon as one coordinate
\* of either vector is NaN.
norm(target_row, row) ==
  IF \E i \in 1..Len(features) : isna(target_row[features[i]]) \/ isna(row[features[i]])
  THEN NaN
  ELSE <<sum_squares(target_row, row, 1)>>

\* Series.map(id_name_map): the name of an id the map holds, NaN otherwise.
map_name(id, id_name_map) == IF id \in DOMAIN id_name_map THEN id_name_map[id] ELSE NaN

\* An inner join with the name table: a row without a name is lost.
with_distance_and_name_inner(others, target_row, id_name_map) ==
  LET kept == SelectSeq(others, LAMBDA r : r.pitcher \in DOMAIN id_name_map)
  IN [i \in 1..Len(kept) |->
        [pitcher |-> kept[i].pitcher,
         name |-> map_name(kept[i].pitcher, id_name_map),
         distance |-> norm(target_row, kept[i])]]

\* The rows with their distance and name columns, in the table's order.
with_distance_and_name(others, target_row, id_name_map) ==
  [i \in 1..Len(others) |->
     [pitcher |-> others[i].pitcher,
      name |-> map_name(others[i].pitcher, id_name_map),
      distance |-> norm(target_row, others[i])]]

\* tosort with the entries at positions i and j exchanged (INTP_SWAP).
swap(tosort, i, j) == [tosort EXCEPT ![i] = tosort[j], ![j] = tosort[i]]

RECURSIVE scan_up(_, _, _, _)
\* do ++pi while v[*pi] < vp
scan_up(v, tosort, pi, vp) ==
  IF v[tosort[pi + 1]] < vp THEN scan_up(v, tosort, pi + 1, vp) ELSE pi + 1

RECURSIVE scan_down(_, _, _, _)
\* do --pj while vp < v[*pj]
scan_down(v, tosort, pj, vp) ==
  IF vp < v[tosort[pj - 1]] THEN scan_down(v, tosort, pj - 1, vp) ELSE pj - 1

RECURSIVE exchange_loop(_, _, _, _, _)
\* The for (;;) loop of the partition: the entries out of place on both sides
\* of the pivot value are exchanged until the scans meet.
exchange_loop(v, tosort, pi, pj, vp) ==
  LET i == scan_up(v, tosort, pi, vp)
      j == scan_down(v, tosort, pj, vp)
  IN IF i >= j THEN [tosort |-> tosort, pi |-> i]
     ELSE exchange_loop(v, swap(tosort, i, j), i, j, vp)

\* One quicksort partition of positions pl..pr: median of three, the pivot
\* parked at pr - 1, the exchange loop, the pivot put at its place pi.
partition(v, tosort, pl, pr) ==
  LET pm == pl + ((pr - pl) \div 2)
      t1 == IF v[tosort[pm]] < v[tosort[pl]] THEN swap(tosort, pm, pl) ELSE tosort
      t2 == IF v[t1[pr]] < v[t1[pm]] THEN swap(t1, pr, pm) ELSE t1
      t3 == IF v[t2[pm]] < v[t2[pl]] THEN swap(t2, pm, pl) ELSE t2
      vp == v[t3[pm]]
      t4 == swap(t3, pm, pr - 1)
      met == exchange_loop(v, t4, pl, pr - 1, vp)
  IN [tosort |-> swap(met.tosort, met.pi, pr - 1), pi |-> met.pi]

RECURSIVE sift(_, _, _, _, _)
\* while pj > pl and v[vi] < v[*pk]: *pj-- = *pk--; then *pj = vi
sift(v, tosort, pl, pj, vi) ==
  IF pj > pl /\ v[vi] < v[tosort[pj - 1]]
  THEN sift(v, [tosort EXCEPT ![pj] = tosort[pj - 1]], pl, pj - 1, vi)
  ELSE [tosort EXCEPT ![pj] = vi]

RECURSIVE insertion_sort(_, _, _, _, _)
\* The insertion sort of positions pl..pr, from position pi on.
insertion_sort(v, tosort, pl, pi, pr) ==
  IF pi > pr THEN tosort
  ELSE insertion_sort(v, sift(v, tosort, pl, pi, tosort[pi]), pl, pi + 1, pr)

RECURSIVE aquicksort(_, _, _, _)
\* numpy's indirect quicksort of positions pl..pr (the portable routine, one of
\* the routines argsort(kind='quicksort') may run; see sort_values_head): a
\* range of more than SMALL_QUICKSORT + 1 entries is partitioned and both
\* sides are sorted, a shorter one is sorted by insertion.  The heapsort that
\* takes over after 2 * floor(log2(n)) nested partitions is out of reach of
\* the frames modelled here.
aquicksort(v, tosort, pl, pr) ==
  IF pr - pl > SMALL_QUICKSORT
  THEN LET p == partition(v, tosort, pl, pr)
       IN aquicksort(v, aquicksort(v, p.tosort, pl, p.pi - 1), p.pi + 1, pr)
  ELSE insertion_sort(v, tosort, pl, pl + 1, pr)

\* ndarray.argsort(kind='quicksort') on a build that runs the portable routine:
\* the positions of v in sorted order.
argsort_portable(v) == aquicksort(v, [i \in 1..Len(v) |-> i], 1, Len(v))

\* sort_values('distance') on a build that runs the portable routine: the rows
\* with a distance in argsort order of the distances, then the NaN rows in their
\* frame order.
sort_values_portable(frame) ==
  LET valued == SelectSeq(frame, LAMBDA r : ~isna(r.distance))
      nans == SelectSeq(frame, LAMBDA r : isna(r.distance))
      order == argsort_portable([i \in 1..Len(valued) |-> valued[i].distance[1]])
  IN [i \in 1..Len(valued) |-> valued[order[i]]] \o nans

\* DataFrame.head(n) for a non-negative n.
head(frame, n) == SubSeq(frame, 1, Min(n, Len(frame)))

\* The positions pick takes out of 1..n.
picked(pick) == {pick[i] : i \in DOMAIN pick}

\* The first k positions of some ascending order of v: k distinct positions
\* whose values do not decrease, none of them above a value left out.
ascending_prefixes(v, k) ==
  {pick \in [1..k -> 1..Len(v)] :
     /\ \A i, j \in 1..k : i < j => pick[i] # pick[j] /\ v[pick[i]] <= v[pick[j]]
     /\ \A i \in 1..k : \A rest \in (1..Len(v)) \ picked(pick) : v[pick[i]] <= v[rest]}

\* sort_values('distance').head(top_n), kind='quicksort', na_position='last':
\* the frames the call may return.  The rows with a distance come first in
\* ascending order of the distance, the NaN rows after them in frame order.
\* The order among rows of equal distance is the sorting routine's: quicksort
\* is not a stable kind, and the routine numpy runs for it depends on the
\* build and the processor (the portable aquicksort above, or a vectorised
\* sort), so every order of equal distances is a possible outcome.
sort_values_head(frame, top_n) ==
  LET valued == SelectSeq(frame, LAMBDA r : ~isna(r.distance))
      nans == SelectSeq(frame, LAMBDA r : isna(r.distance))
      k == Min(top_n, Len(valued))
      v == [i \in 1..Len(valued) |-> valued[i].distance[1]]
  IN {[i \in 1..k |-> valued[pick[i]]] \o head(nans, top_n - k) :
        pick \in ascending_prefixes(v, k)}

\* The table with the target's row left in.
other_rows_keep_target(averages, pitcher_id) == averages

\* pitcher_averages with the target's row removed.
other_rows(averages, pitcher_id) == filter_ne(averages, "pitcher", pitcher_id)

\* The ids the name resolver is asked about.
lookup_ids(pitcher_id, pitch_type) ==
  LET filtered == filter_eq(statcast, "pitch_type", pitch_type)
      averages == pitcher_averages(filtered)
  IN IF provider = "down" \/ filter_eq(averages, "pitcher", pitcher_id) = <<>>
     THEN {}
     ELSE {r.pitcher : r \in Range(other_rows(averages, pitcher_id))}

\* The values find_similar may return; named is the set of ids the name
\* resolver answers for.  There is one value unless candidates tie on the
\* distance.
find_similar_results(pitcher_id, pitch_type, top_n, named) ==
  IF provider = "down" THEN {[kind |-> "raise", columns |-> <<>>, rows |-> <<>>]}
  ELSE IF statcast = <<>> THEN {EmptyFrame}
  ELSE LET filtered == filter_eq(statcast, "pitch_type", pitch_type)
       IN IF filtered = <<>> THEN {EmptyFrame}
          ELSE LET averages == pitcher_averages(filtered)
                   target_row == filter_eq(averages, "pitcher", pitcher_id)
               IN IF target_row = <<>> THEN {EmptyFrame}
                  ELSE LET others == other_rows(averages, pitcher_id)
                           id_name_map == [id \in named |-> player_name(id)]
                           frame == with_distance_and_name(others, target_row[1], id_name_map)
                       IN {[kind |-> "DataFrame",
                            columns |-> <<"pitcher", "name", "distance">>,
                            rows |-> rows] : rows \in sort_values_head(frame, top_n)}

\* The aggregated table find_similar holds when it returns (none before line 123).
find_similar_table(pitch_type) ==
  IF provider = "down" \/ filter_eq(statcast, "pitch_type", pitch_type) = <<>>
  THEN <<>>
  ELSE pitcher_averages(filter_eq(statcast, "pitch_type", pitch_type))

\* ------------------------------------------------------------------ actions
Init ==
  /\ data = <<>>
  /\ provider = "up"
  /\ op = "none"
  /\ args = <<>>
  /\ table = <<>>
  /\ result = <<>>

\* The provider has recorded one more pitch in the date range.
AddEvent ==
  /\ op = "none"
  /\ provider = "up"
  /\ Len(data) < MaxEvents
  /\ \E e \in Events : data' = Append(data, e)
  /\ UNCHANGED <<provider, op, args, table, result>>

\* The provider stops answering: statcast raises.
ProviderFails ==
  /\ op = "none"
  /\ provider = "up"
  /\ provider' = "down"
  /\ data' = <<>>
  /\ UNCHANGED <<op, args, table, result>>

CallPitcherPitchAverages ==
  /\ op = "none"
  /\ \E pitcher_id \in Pitchers :
       /\ op' = "pitcher_pitch_averages"
       /\ args' = [pitcher_id |-> pitcher_id]
       /\ IF provider = "down"
          THEN /\ table' = <<>>
               /\ result' = [kind |-> "raise", columns |-> <<>>, rows |-> <<>>]
          ELSE IF statcast_pitcher(pitcher_id) = <<>>
          THEN /\ table' = <<>>
               /\ result' = EmptyFrame
          ELSE /\ table' = pitcher_grouped(statcast_pitcher(pitcher_id))
               /\ result' = pitcher_pitch_averages_result(table')
  /\ UNCHANGED <<data, provider>>

CallGetCandidates ==
  /\ op = "none"
  /\ \E t \in 1..Len(PitchTypes) :
       /\ op' = "get_candidates"
       /\ args' = [pitch_type |-> PitchTypes[t]]
       /\ table' = <<>>
       /\ result' = get_candidates_result(PitchTypes[t])
  /\ UNCHANGED <<data, provider>>

CallFindSimilar ==
  /\ op = "none"
  /\ \E t \in 1..Len(PitchTypes), pitcher_id \in Pitchers :
       LET averages == find_similar_table(PitchTypes[t])
           ids == lookup_ids(pitcher_id, PitchTypes[t])
       IN \E top_n \in 1..MaxTopN, named \in SUBSET ids :
            /\ op' = "find_similar"
            /\ args' = [pitcher_id |-> pitcher_id, pitch_type |-> PitchTypes[t],
                        top_n |-> top_n, named |-> named]
            /\ table' = averages
            /\ result' \in find_similar_results(pitcher_id, PitchTypes[t], top_n, named)
  /\ UNCHANGED <<data, provider>>

\* find_similar over a busy date range; the name resolver answers for every
\* candidate or for none.
CallFindSimilarWide ==
  /\ op = "none"
  /\ \E pitcher_id \in WideTargets, top_n \in 1..(MaxTopN + 1) :
       \E named \in {{}, lookup_ids(pitcher_id, PitchTypes[1])} :
         /\ op' = "find_similar"
         /\ args' = [pitcher_id |-> pitcher_id, pitch_type |-> PitchTypes[1],
                     top_n |-> top_n, named |-> named]
         /\ table' = find_similar_table(PitchTypes[1])
         /\ result' \in find_similar_results(pitcher_id, PitchTypes[1], top_n, named)
  /\ UNCHANGED <<data, provider>>

\* The caller has consumed the result; the call's locals are gone.
Return ==
  /\ op # "none"
  /\ op' = "none"
  /\ args' = <<>>
  /\ table' = <<>>
  /\ result' = <<>>
  /\ UNCHANGED <<data, provider>>

Next ==
  \/ AddEvent
  \/ ProviderFails
  \/ CallPitcherPitchAverages
  \/ CallGetCandidates
  \/ CallFindSimilar
  \/ Return

Spec == Init /\ [][Next]_vars

\* The provider has answered with the frame of a busy date range.
WideInit ==
  /\ data \in WideFrames
  /\ provider = "up"
  /\ op = "none"
  /\ args = <<>>
  /\ table = <<>>
  /\ result = <<>>

WideNext ==
  \/ CallFindSimilarWide
  \/ Return

\* find_similar over frames long enough for the portable quicksort to
\* partition.
SpecWide == WideInit /\ [][WideNext]_vars

\* ------------------------------------------------------------------ claims
\* find_similar returned a frame (it did not raise).
FindSimilarReturned == op = "find_similar" /\ result.kind = "DataFrame"

\* find_similar reached its last line: the frame carries the ranking columns.
Ranked == FindSimilarReturned /\ result.columns # <<>>

\* A table row with a mean for every ranking feature.
complete(row) == \A i \in 1..Len(features) : ~isna(row[features[i]])

TableKeys == {r.pitcher : r \in Range(table)}

TableRow(p) == CHOOSE r \in Range(table) : r.pitcher = p

\* The other pitchers of the table with a complete vector.
Eligible == {r \in Range(table) : r.pitcher # args.pitcher_id /\ complete(r)}

ReturnedIds == {r.pitcher : r \in Range(result.rows)}

\* a <= b on distances; false as soon as one of them is NaN, as on floats.
dist_le(a, b) == ~isna(a) /\ ~isna(b) /\ a[1] <= b[1]

RECURSIVE SumOver(_, _)
\* The sum of column c over the events of data at the indices I.
SumOver(I, c) ==
  IF I = {} THEN 0
  ELSE LET i == CHOOSE x \in I : TRUE IN data[i][c][1] + SumOver(I \ {i}, c)

\* The mean of column c over exactly the events of G that carry a value for c.
PresentMean(G, c) ==
  LET I == {i \in G : ~isna(data[i][c])}
  IN IF I = {} THEN NaN ELSE <<SumOver(I, c), Cardinality(I)>>

\* The events of the requested pitch type thrown by pitcher p.
PitcherGroup(p) ==
  {i \in 1..Len(data) : data[i].pitch_type = args.pitch_type /\ data[i].pitcher = p}

\* The events of pitch type t thrown by the requested pitcher.
PitchTypeGroup(t) ==
  {i \in 1..Len(data) : data[i].pitcher = args.pitcher_id /\ data[i].pitch_type = t}

\* C1: the rows find_similar returns are in non-decreasing distance order:
\* for any two positions i < j, distance[i] <= distance[j].
C1_SortedByDistance ==
  FindSimilarReturned =>
    \A i, j \in 1..Len(result.rows) :
      i < j => dist_le(result.rows[i].distance, result.rows[j].distance)

\* The ids and distances of a frame, without the names.
Ranking(rows) ==
  [i \in 1..Len(rows) |-> [pitcher |-> rows[i].pitcher, distance |-> rows[i].distance]]

\* The returned ranking is the one of a build that sorts with the portable
\* routine.
PortableRanking ==
  /\ Ranked
  /\ Ranking(result.rows)
       = Ranking(head(sort_values_portable(
                        with_distance_and_name(other_rows(table, args.pitcher_id),
                                               TableRow(args.pitcher_id), <<>>)),
                      args.top_n))

\* C2: two returned candidates with the same computed distance appear in
\* ascending pitcher id order (stated for the order the portable sorting
\* routine yields, one of the orders the call may return).
C2_TiesByPitcherId ==
  (FindSimilarReturned /\ PortableRanking) =>
    \A i, j \in 1..Len(result.rows) :
      (/\ i < j
       /\ ~isna(result.rows[i].distance)
       /\ result.rows[i].distance = result.rows[j].distance)
        => result.rows[i].pitcher < result.rows[j].pitcher

\* C3: with the target in the table and k eligible candidates, find_similar
\* returns exactly min(top_n, k) rows, the eligible candidates of smallest
\* distance.
C3_ExactlyMinTopNEligible ==
  (op = "find_similar" /\ args.pitcher_id \in TableKeys) =>
    /\ result.kind = "DataFrame"
    /\ Len(result.rows) = Min(args.top_n, Cardinality(Eligible))
    /\ \A r \in Range(result.rows) :
         /\ TableRow(r.pitcher) \in Eligible
         /\ \A e \in Eligible :
              e.pitcher \notin ReturnedIds =>
                dist_le(r.distance, norm(TableRow(args.pitcher_id), e))

\* C4: when other pitchers threw the requested pitch type and the target did
\* not, find_similar fails with TargetNotFoundError instead of returning a frame.
C4_TargetNotFoundError ==
  (op = "find_similar" /\ table # <<>> /\ args.pitcher_id \notin TableKeys) =>
    result.kind = "TargetNotFoundError"

\* C5: every pitcher find_similar returns has a mean for each of the six
\* ranking features, and a defined distance.
C5_IncompleteNeverReturned ==
  Ranked =>
    \A r \in Range(result.rows) :
      complete(TableRow(r.pitcher)) /\ ~isna(r.distance)

\* C6: each aggregated value of a feature is the arithmetic mean over exactly the
\* events of the group that carry a value for that feature, in the table of
\* find_similar and in the frame pitcher_pitch_averages returns.
C6_MeanOverPresent ==
  /\ op = "find_similar" =>
       \A r \in Range(table) : \A c \in Range(features) :
         r[c] = PresentMean(PitcherGroup(r.pitcher), c)
  /\ (op = "pitcher_pitch_averages" /\ result.kind = "DataFrame") =>
       \A r \in Range(result.rows) : \A c \in Range(agg_columns) :
         r[renamed(c)] = PresentMean(PitchTypeGroup(r.pitch_type), c)

\* A pitcher of the table has an event without release_speed that still counts
\* in the mean of release_spin_rate.
C6_Witness ==
  /\ op = "find_similar"
  /\ \E r \in Range(table) :
       /\ ~isna(r.release_speed)
       /\ ~isna(r.release_spin_rate)
       /\ r.release_speed[2] < r.release_spin_rate[2]
       /\ r.release_spin_rate[1] > r.release_spin_rate[2]

\* C7: the aggregated table has exactly one entry per distinct key of its input:
\* in find_similar the pitchers with an event of the requested pitch type, in
\* pitcher_pitch_averages the pitch types recorded on the pitcher's events.
C7_GroupKeys ==
  /\ (op = "find_similar" /\ provider = "up") =>
       /\ TableKeys = {data[i].pitcher : i \in {j \in 1..Len(data) :
                                                 data[j].pitch_type = args.pitch_type}}
       /\ Len(table) = Cardinality(TableKeys)
  /\ (op = "pitcher_pitch_averages" /\ result.kind = "DataFrame") =>
       /\ {r.pitch_type : r \in Range(result.rows)}
            = {data[i].pitch_type : i \in {j \in 1..Len(data) :
                                             /\ data[j].pitcher = args.pitcher_id
                                             /\ data[j].pitch_type # NoType}}
       /\ Len(result.rows) = Cardinality({r.pitch_type : r \in Range(result.rows)})

\* The table holds two pitchers while the frame also holds a pitch of another
\* type.
C7_Witness ==
  /\ op = "find_similar"
  /\ Cardinality(TableKeys) = 2
  /\ \E i \in 1..Len(data) : data[i].pitch_type # args.pitch_type

\* C8: whatever ids the name resolver answers for, the ids and distances
\* find_similar returns are ones it may return with every name resolved, and a
\* candidate without a name is kept with a missing name.
C8_NamesOnlyDecorate ==
  Ranked =>
    /\ Ranking(result.rows)
         \in {Ranking(full.rows) :
                full \in find_similar_results(args.pitcher_id, args.pitch_type, args.top_n,
                                              lookup_ids(args.pitcher_id, args.pitch_type))}
    /\ \A r \in Range(result.rows) :
         r.name = IF r.pitcher \in args.named THEN player_name(r.pitcher) ELSE NaN

\* The resolver left out a candidate, who is returned with a missing name.
C8_Witness ==
  /\ Ranked
  /\ \E r \in Range(result.rows) : r.pitcher \notin args.named /\ isna(r.name)
  /\ \E r \in Range(result.rows) : r.pitcher \in args.named

\* C9: when the provider fails, get_candidates and find_similar end in a failure
\* passed to the caller, never in an empty result.
C9_ProviderFailurePassedOn ==
  (provider = "down" /\ op \in {"get_candidates", "find_similar"}) =>
    result.kind = "raise"

\* C10: the target is never returned, the returned ids are distinct, and each
\* belongs to a pitcher with an event of the requested pitch type.
C10_TargetExcluded ==
  FindSimilarReturned =>
    /\ args.pitcher_id \notin ReturnedIds
    /\ Cardinality(ReturnedIds) = Len(result.rows)
    /\ \A p \in ReturnedIds : PitcherGroup(p) # {}

\* A candidate is returned while the frame holds a pitcher who threw only
\* another pitch type.
C10_Witness ==
  /\ Ranked
  /\ result.rows # <<>>
  /\ \E i \in 1..Len(data) : data[i].pitcher \notin TableKeys

====
